---- MODULE Spec2Model ----
(***************************************************************************)
(* Validation contracts of flingoos_shared_models: the text-trigger family *)
(* (TextSessionRef, TextProcessingOptions, TextTrigger,                    *)
(* TextGenerateResponse) and the PersistentSession record.                 *)
(*                                                                         *)
(* The classes are declarative pydantic (v2) models.  A class is modelled  *)
(* by its field table (type, required-ness, default, constraints) and its  *)
(* extra-field policy; construction is the validator applied to an untyped *)
(* key/value payload, serialisation is model_dump(mode="json").            *)
(*                                                                         *)
(* Values.  A python value is a tagged record:                             *)
(*   str    [tag |-> "str",   s |-> text, n |-> number of characters]      *)
(*          (a content text is kept as its number of characters only)      *)
(*   int    [tag |-> "int",   n |-> value]                                 *)
(*   float  [tag |-> "float", n |-> twice the value] (so 3 stands for 1.5) *)
(*   None   [tag |-> "none"]                                               *)
(*   enum member [tag |-> "enum", cls |-> enum class, s |-> member value]  *)
(*   dict   [tag |-> "dict", d |-> function from keys to values]           *)
(*   model instance [tag |-> "instance", cls |-> class, d |-> fields]      *)
(* A key that is absent from a dict is absent from the function's DOMAIN.  *)
(***************************************************************************)
EXTENDS Integers, Sequences, FiniteSets, TLC

VARIABLES
    pc,        \* "input", "constructed", "dumped", "revalidated", "done"
    cls,       \* the class under construction
    payload,   \* the untyped key/value structure handed to the constructor
    result,    \* outcome of the construction: [ok, inst, errors]
    dumped,    \* model_dump of the constructed instance
    result2,   \* outcome of validating `dumped` again
    dumped2    \* model_dump of the re-validated instance

vars == <<pc, cls, payload, result, dumped, result2, dumped2>>

----------------------------------------------------------------------------
\* Bounds of the model
Pad == 1       \* content lengths are tried within Pad of each length limit
MaxInt == 2    \* integers are tried in -MaxInt..MaxInt

\* Program constants
ContentMinLength == 50
ContentMaxLength == 50000
IdMinLength == 1

----------------------------------------------------------------------------
\* Values
Missing == [tag |-> "missing", s |-> "", n |-> 0]
None == [tag |-> "none", s |-> "", n |-> 0]
StrV(text) == [tag |-> "str", s |-> text, n |-> Len(text)]
\* a text of len characters, of which only the length is kept
Content(len) == [tag |-> "str", s |-> "<content>", n |-> len]
IntV(i) == [tag |-> "int", s |-> "", n |-> i]
FloatV(twice) == [tag |-> "float", s |-> "", n |-> twice]
Member(enum, value) == [tag |-> "enum", cls |-> enum, s |-> value, n |-> 0]
Dict(f) == [tag |-> "dict", d |-> f]
Instance(c, f) == [tag |-> "instance", cls |-> c, d |-> f]
NoInstance == [tag |-> "noinstance", cls |-> "", d |-> <<>>]

Keys(p) == {k \in DOMAIN p : p[k].tag # "missing"}
\* the dict holding exactly the keys of r that are not marked Missing
Restrict(r) == [k \in Keys(r) |-> r[k]]

\* decimal texts that int() / float() parse
NumericTexts == {"0", "1", "-1"}
ParseInt(text) == CASE text = "0" -> 0 [] text = "1" -> 1 [] text = "-1" -> -1

----------------------------------------------------------------------------
\* Enumerations (text_trigger.py)
\* the language enumeration with one more code
TextOutputLanguageWithSwedish ==
    {"auto", "en", "es", "fr", "de", "pt", "zh", "ja", "ko", "ar",
     "he", "ru", "it", "nl", "pl", "tr", "vi", "th", "id", "hi", "sv"}

TextOutputLanguage ==
    {"auto", "en", "es", "fr", "de", "pt", "zh", "ja", "ko", "ar",
     "he", "ru", "it", "nl", "pl", "tr", "vi", "th", "id", "hi"}
TextInputType == {"workflow_recording", "teaching_session"}
TextOutputFormat == {"workflow_guide", "knowledge_base"}
TextVisibility == {"private", "org:view", "org:edit"}

EnumValues(enum) ==
    CASE enum = "TextOutputLanguage" -> TextOutputLanguage
      [] enum = "TextInputType" -> TextInputType
      [] enum = "TextOutputFormat" -> TextOutputFormat
      [] enum = "TextVisibility" -> TextVisibility

----------------------------------------------------------------------------
\* Field declarations.  type is "str", "int", "float", "literal", "enum" or
\* "model"; nullable is Optional[...]; a field without a default is required;
\* max_length -1 is "no max_length"; values are a Literal's values; target is
\* the enum or model class of an "enum" or "model" field.
BaseField ==
    [type |-> "str", nullable |-> FALSE, required |-> TRUE, default |-> Missing,
     min_length |-> 0, max_length |-> -1, values |-> {}, target |-> ""]
RequiredStr == BaseField
BoundedStr(lo, hi) == [BaseField EXCEPT !.min_length = lo, !.max_length = hi]
OptionalField(type) ==
    [BaseField EXCEPT !.type = type, !.nullable = TRUE, !.required = FALSE,
                      !.default = None]
DefaultField(type, default) ==
    [BaseField EXCEPT !.type = type, !.required = FALSE, !.default = default]
EnumField(enum) == [BaseField EXCEPT !.type = "enum", !.target = enum]
ModelField(model) == [BaseField EXCEPT !.type = "model", !.target = model]
LiteralField(values) == [BaseField EXCEPT !.type = "literal", !.values = values]

TextSessionRef ==
    [org_id |-> BoundedStr(IdMinLength, -1),
     user_id |-> BoundedStr(IdMinLength, -1),
     user_email |-> OptionalField("str"),
     session_id |-> BoundedStr(IdMinLength, -1),
     content |-> BoundedStr(ContentMinLength, ContentMaxLength)]

TextProcessingOptions ==
    [input_type |-> EnumField("TextInputType"),
     output_format |-> EnumField("TextOutputFormat"),
     model |-> DefaultField("str", StrV("gemini-3-pro-preview")),
     output_language |->
        [EnumField("TextOutputLanguage") EXCEPT
            !.required = FALSE,
            !.default = Member("TextOutputLanguage", "auto")]]

TextTrigger ==
    [version |->
        [LiteralField({"1.0"}) EXCEPT !.required = FALSE,
                                      !.default = StrV("1.0")],
     text_session |-> ModelField("TextSessionRef"),
     processing_options |-> ModelField("TextProcessingOptions"),
     visibility |->
        [EnumField("TextVisibility") EXCEPT
            !.required = FALSE,
            !.default = Member("TextVisibility", "private")],
     source |->
        [LiteralField({"mcp-generate"}) EXCEPT
            !.required = FALSE, !.default = StrV("mcp-generate")],
     project_id |-> OptionalField("str"),
     name |-> OptionalField("str")]

TextGenerateResponse ==
    [status |-> LiteralField({"accepted", "error"}),
     session_id |-> RequiredStr,
     message |-> RequiredStr,
     estimated_seconds |-> OptionalField("int")]

PersistentSession ==
    [session_id |-> RequiredStr,
     user_id |-> RequiredStr,
     org_id |-> RequiredStr,
     device_fingerprint |-> RequiredStr,
     created_at |-> RequiredStr,
     started_at |-> RequiredStr,
     stopped_at |-> OptionalField("str"),
     completed_at |-> OptionalField("str"),
     updated_at |-> RequiredStr,
     status |-> RequiredStr,
     substatus |-> OptionalField("str"),
     presence_ticket_jti |-> RequiredStr,
     processing_id |-> OptionalField("str"),
     firestore_path |-> OptionalField("str"),
     processing_time_seconds |-> OptionalField("float"),
     stopped_by_user_id |-> OptionalField("str"),
     stop_method |-> OptionalField("str"),
     error |-> OptionalField("str"),
     error_code |-> OptionalField("str"),
     retry_count |-> DefaultField("int", IntV(0)),
     version |-> DefaultField("int", IntV(1)),
     ttl_expires_at |-> RequiredStr]

Classes ==
    {"TextSessionRef", "TextProcessingOptions", "TextTrigger",
     "TextGenerateResponse", "PersistentSession"}

ModelFields(c) ==
    CASE c = "TextSessionRef" -> TextSessionRef
      [] c = "TextProcessingOptions" -> TextProcessingOptions
      [] c = "TextTrigger" -> TextTrigger
      [] c = "TextGenerateResponse" -> TextGenerateResponse
      [] c = "PersistentSession" -> PersistentSession

\* every class closed
ForbidEverywhere(c) == "forbid"

\* model_config: ConfigDict(extra='forbid') on the trigger family; the
\* session record declares no model_config, and pydantic's default is 'ignore'
ModelConfigExtra(c) == IF c = "PersistentSession" THEN "ignore" ELSE "forbid"

----------------------------------------------------------------------------
\* Validation (pydantic BaseModel, lax mode).  A validator returns
\* [value, errs]: the coerced value and the set of errors [loc, type], where
\* loc is the path of the offending field below the validated value.
Valid(v) == [value |-> v, errs |-> {}]
Invalid(type) == [value |-> Missing, errs |-> {[loc |-> <<>>, type |-> type]}]

\* the length limits taken as exclusive
ValidateStrExclusive(f, v) ==
    IF v.tag # "str" THEN Invalid("string_type")
    ELSE IF v.n <= f.min_length THEN Invalid("string_too_short")
    ELSE IF f.max_length # -1 /\ v.n >= f.max_length THEN Invalid("string_too_long")
    ELSE Valid(v)

\* str: only a str is accepted; then min_length / max_length
ValidateStr(f, v) ==
    IF v.tag # "str" THEN Invalid("string_type")
    ELSE IF v.n < f.min_length THEN Invalid("string_too_short")
    ELSE IF f.max_length # -1 /\ v.n > f.max_length THEN Invalid("string_too_long")
    ELSE Valid(v)

\* int: an int; a float without fractional part; a str that parses
ValidateInt(v) ==
    CASE v.tag = "int" -> Valid(v)
      [] v.tag = "float" ->
            IF v.n % 2 = 0 THEN Valid(IntV(v.n \div 2)) ELSE Invalid("int_from_float")
      [] v.tag = "str" ->
            IF v.s \in NumericTexts THEN Valid(IntV(ParseInt(v.s)))
            ELSE Invalid("int_parsing")
      [] OTHER -> Invalid("int_type")

\* float: a float; an int; a str that parses
ValidateFloat(v) ==
    CASE v.tag = "float" -> Valid(v)
      [] v.tag = "int" -> Valid(FloatV(2 * v.n))
      [] v.tag = "str" ->
            IF v.s \in NumericTexts THEN Valid(FloatV(2 * ParseInt(v.s)))
            ELSE Invalid("float_parsing")
      [] OTHER -> Invalid("float_type")

\* Literal[...]: the value itself must be one of the literal strings
ValidateLiteral(f, v) ==
    IF v.tag = "str" /\ v.s \in f.values THEN Valid(v) ELSE Invalid("literal_error")

\* an enum field that takes any str
ValidateEnumAnyStr(f, v) ==
    IF v.tag \in {"str", "enum"} THEN Valid(Member(f.target, v.s)) ELSE Invalid("enum")

\* (str, Enum): a member of the enum, or the value of one of its members
ValidateEnum(f, v) ==
    IF v.tag \in {"str", "enum"} /\ v.s \in EnumValues(f.target)
    THEN Valid(Member(f.target, v.s))
    ELSE Invalid("enum")

RECURSIVE ValidateModel(_, _)

\* a nested model field: an instance of the class is taken as it is, a dict is
\* validated against the class, anything else is a model_type error
ValidateNested(f, v) ==
    CASE v.tag = "instance" /\ v.cls = f.target -> Valid(v)
      [] v.tag = "dict" ->
            LET r == ValidateModel(f.target, v.d)
            IN  [value |-> r.inst, errs |-> r.errors]
      [] OTHER -> Invalid("model_type")

ValidateValue(f, v) ==
    IF f.nullable /\ v.tag = "none" THEN Valid(v)
    ELSE CASE f.type = "str" -> ValidateStr(f, v)
           [] f.type = "int" -> ValidateInt(v)
           [] f.type = "float" -> ValidateFloat(v)
           [] f.type = "literal" -> ValidateLiteral(f, v)
           [] f.type = "enum" -> ValidateEnum(f, v)
           [] f.type = "model" -> ValidateNested(f, v)

\* an absent optional field left unset whatever its declared default
ValidateFieldNoDefault(f, p, k) ==
    IF k \in Keys(p) THEN ValidateValue(f, p[k])
    ELSE IF f.required THEN Invalid("missing")
    ELSE Valid(None)

\* one declared field of a payload: the default when the key is absent (the
\* default is not validated), a "missing" error when it is required
ValidateField(f, p, k) ==
    IF k \in Keys(p) THEN ValidateValue(f, p[k])
    ELSE IF f.required THEN Invalid("missing")
    ELSE Valid(f.default)

\* undeclared keys let through
ExtraIgnored(c, p) == {}

\* the errors of the keys the class does not declare
ExtraErrors(c, p) ==
    IF ModelConfigExtra(c) = "forbid"
    THEN {[loc |-> <<k>>, type |-> "extra_forbidden"] :
             k \in Keys(p) \ DOMAIN ModelFields(c)}
    ELSE {}

\* a validator that gives up at the first error
FirstErrorOnly(fieldErrs, extraErrs) ==
    LET all == fieldErrs \cup extraErrs
    IN  IF all = {} THEN {} ELSE {CHOOSE e \in all : TRUE}

\* every field is validated and every error is collected, each under the
\* path of its field
CollectErrors(fieldErrs, extraErrs) == fieldErrs \cup extraErrs

\* BaseModel.__init__ / model_validate: an instance holding every declared
\* field, or no instance and the errors
ValidateModel(c, p) ==
    LET fields == ModelFields(c)
        res == [k \in DOMAIN fields |-> ValidateField(fields[k], p, k)]
        fieldErrs ==
            UNION {{[loc |-> <<k>> \o e.loc, type |-> e.type] : e \in res[k].errs} :
                      k \in DOMAIN fields}
        errs == CollectErrors(fieldErrs, ExtraErrors(c, p))
    IN  IF errs = {}
        THEN [ok |-> TRUE,
              inst |-> Instance(c, [k \in DOMAIN fields |-> res[k].value]),
              errors |-> {}]
        ELSE [ok |-> FALSE, inst |-> NoInstance, errors |-> errs]

----------------------------------------------------------------------------
\* Serialisation: model_dump(mode="json")
RECURSIVE DumpValue(_)

\* an enum member is dumped as the name of the member, not as its value
DumpValueByName(v) ==
    CASE v.tag = "enum" -> StrV("<" \o v.cls \o ">")
      [] v.tag = "instance" -> Dict([k \in DOMAIN v.d |-> DumpValue(v.d[k])])
      [] OTHER -> v

\* an enum member is dumped as its value, a nested instance as a dict
DumpValue(v) ==
    CASE v.tag = "enum" -> StrV(v.s)
      [] v.tag = "instance" -> Dict([k \in DOMAIN v.d |-> DumpValue(v.d[k])])
      [] OTHER -> v

ModelDump(inst) == [k \in DOMAIN inst.d |-> DumpValue(inst.d[k])]

----------------------------------------------------------------------------
\* Payloads handed to the constructors
ContentLengths ==
    {0} \cup ((ContentMinLength - Pad)..(ContentMinLength + Pad))
        \cup ((ContentMaxLength - Pad)..(ContentMaxLength + Pad))
Ints == {IntV(i) : i \in (-MaxInt)..MaxInt}
Undeclared == {Missing, StrV("x")}

TextSessionRefPayloads ==
    {Restrict(r) : r \in
        [org_id : {Missing, StrV(""), StrV("o1"), IntV(1)},
         user_id : {StrV("u1"), StrV("")},
         user_email : {Missing, None, StrV("a@b.c"), IntV(1)},
         session_id : {StrV("s1"), Missing, None},
         content : {Content(n) : n \in ContentLengths} \cup {Missing, IntV(60)},
         extra_field : Undeclared]}

TextProcessingOptionsPayloads ==
    {Restrict(r) : r \in
        [input_type : {Missing, StrV("workflow_recording"), StrV("teaching_session"),
                       StrV("WORKFLOW_RECORDING"),
                       Member("TextInputType", "teaching_session")},
         output_format : {StrV("workflow_guide"), StrV("knowledge_base"),
                          StrV("workflow_recording"), IntV(1)},
         model : {Missing, StrV("m"), None},
         output_language : {Missing, None, StrV("AUTO"), StrV("english"), StrV("xx"),
                            StrV("sv"), StrV("uk"), StrV("el")}
                           \cup {StrV(l) : l \in TextOutputLanguage},
         extra_field : Undeclared]}

\* the embedded objects of a trigger payload
NestedTextSessions ==
    {Dict(Restrict(r)) : r \in
        [org_id : {StrV("o1"), StrV("")},
         user_id : {StrV("u1")},
         session_id : {StrV("s1")},
         content : {Content(ContentMinLength - 1), Content(ContentMinLength + 2)},
         extra_field : Undeclared]}
    \cup {Missing, StrV("s1"),
          Instance("TextSessionRef",
                   [org_id |-> StrV("o1"), user_id |-> StrV("u1"), user_email |-> None,
                    session_id |-> StrV("s1"),
                    content |-> Content(ContentMinLength)])}

NestedProcessingOptions ==
    {Dict(Restrict(r)) : r \in
        [input_type : {StrV("workflow_recording"), StrV("recording")},
         output_format : {StrV("workflow_guide")},
         output_language : {Missing, StrV("xx")},
         extra_field : Undeclared]}
    \cup {Missing, None}

TextTriggerPayloads ==
    {Restrict(r) : r \in
        [version : {Missing, StrV("1.0"), StrV("2.0"), FloatV(2)},
         text_session : NestedTextSessions,
         processing_options : NestedProcessingOptions,
         visibility : {Missing, StrV("org:view"), StrV("public"),
                       Member("TextVisibility", "org:edit")},
         source : {Missing, StrV("mcp-generate"), StrV("api")},
         project_id : {Missing, StrV("p1")},
         name : {Missing, IntV(1)},
         extra_field : Undeclared]}

TextGenerateResponsePayloads ==
    {Restrict(r) : r \in
        [status : {Missing, StrV("accepted"), StrV("error"), StrV("ok"), None},
         session_id : {StrV("s1"), Missing, IntV(1)},
         message : {StrV("queued"), Missing},
         estimated_seconds : {Missing, None, StrV("1"), StrV("soon"), FloatV(3),
                              FloatV(4)} \cup Ints,
         extra_field : Undeclared]}

PersistentSessionPayloads ==
    {Restrict(r) : r \in
        [session_id : {StrV("s1"), StrV(""), Missing},
         user_id : {StrV("u1"), StrV("")},
         org_id : {StrV("o1"), StrV("")},
         device_fingerprint : {StrV("fp")},
         created_at : {StrV("2025-01-01T00:00:00Z")},
         started_at : {StrV("2025-01-01T00:00:01Z")},
         stopped_at : {Missing, StrV("2025-01-01T00:10:00Z")},
         updated_at : {StrV("2025-01-01T00:10:00Z")},
         status : {StrV("failed"), StrV("bogus")},
         presence_ticket_jti : {StrV("jti-1"), StrV("")},
         processing_time_seconds : {Missing, None, FloatV(3), IntV(1), StrV("fast")},
         retry_count : {Missing, StrV("1"), FloatV(3)} \cup Ints,
         version : {Missing, IntV(2)},
         ttl_expires_at : {StrV("2025-02-01T00:00:00Z")},
         extra_field : Undeclared]}

Payloads(c) ==
    CASE c = "TextSessionRef" -> TextSessionRefPayloads
      [] c = "TextProcessingOptions" -> TextProcessingOptionsPayloads
      [] c = "TextTrigger" -> TextTriggerPayloads
      [] c = "TextGenerateResponse" -> TextGenerateResponsePayloads
      [] c = "PersistentSession" -> PersistentSessionPayloads

----------------------------------------------------------------------------
\* The operations: a payload is constructed into an instance of its class;
\* an instance is dumped, the dump validated again and the result dumped again.
NoResult == [ok |-> FALSE, inst |-> NoInstance, errors |-> {}]
NoDump == <<>>

Init ==
    /\ pc = "input"
    /\ cls \in Classes
    /\ payload \in Payloads(cls)
    /\ result = NoResult
    /\ dumped = NoDump
    /\ result2 = NoResult
    /\ dumped2 = NoDump

Construct(c) ==
    /\ pc = "input"
    /\ cls = c
    /\ result' = ValidateModel(c, payload)
    /\ pc' = "constructed"
    /\ UNCHANGED <<cls, payload, dumped, result2, dumped2>>

ConstructTextSessionRef == Construct("TextSessionRef")
ConstructTextProcessingOptions == Construct("TextProcessingOptions")
ConstructTextTrigger == Construct("TextTrigger")
ConstructTextGenerateResponse == Construct("TextGenerateResponse")
ConstructPersistentSession == Construct("PersistentSession")

Serialize ==
    /\ pc = "constructed"
    /\ result.ok
    /\ dumped' = ModelDump(result.inst)
    /\ pc' = "dumped"
    /\ UNCHANGED <<cls, payload, result, result2, dumped2>>

Revalidate ==
    /\ pc = "dumped"
    /\ result2' = ValidateModel(cls, dumped)
    /\ pc' = "revalidated"
    /\ UNCHANGED <<cls, payload, result, dumped, dumped2>>

Reserialize ==
    /\ pc = "revalidated"
    /\ result2.ok
    /\ dumped2' = ModelDump(result2.inst)
    /\ pc' = "done"
    /\ UNCHANGED <<cls, payload, result, dumped, result2>>

Next ==
    \/ ConstructTextSessionRef
    \/ ConstructTextProcessingOptions
    \/ ConstructTextTrigger
    \/ ConstructTextGenerateResponse
    \/ ConstructPersistentSession
    \/ Serialize
    \/ Revalidate
    \/ Reserialize

Spec == Init /\ [][Next]_vars

TypeOK ==
    /\ pc \in {"input", "constructed", "dumped", "revalidated", "done"}
    /\ cls \in Classes
    /\ result.ok \in BOOLEAN

----------------------------------------------------------------------------
\* Properties

Constructed(c) == pc # "input" /\ cls = c
Has(p, k) == k \in Keys(p)
IsStr(v, lo, hi) == v.tag = "str" /\ v.n >= lo /\ v.n <= hi
IsDict(p, k) == Has(p, k) /\ p[k].tag = "dict"
SessionDeclared == {"org_id", "user_id", "user_email", "session_id", "content"}
OptionsDeclared == {"input_type", "output_format", "model", "output_language"}
TriggerDeclared ==
    {"version", "text_session", "processing_options", "visibility", "source",
     "project_id", "name"}
ResponseDeclared == {"status", "session_id", "message", "estimated_seconds"}

IdsValid(p) ==
    \A k \in {"org_id", "user_id", "session_id"} :
        Has(p, k) /\ p[k].tag = "str" /\ p[k].n >= 1
ContentInRange(p) == Has(p, "content") /\ IsStr(p["content"], 50, 50000)
ContentOutOfRange(p) ==
    Has(p, "content") /\ p["content"].tag = "str"
        /\ (p["content"].n < 50 \/ p["content"].n > 50000)
EmailValid(p) == Has(p, "user_email") => p["user_email"].tag \in {"none", "str"}

\* C1 as stated: with org_id, user_id and session_id valid, construction of a
\* TextSessionRef succeeds if and only if content has 50 to 50,000 characters.
C1_ValidIdsSucceedIffContentInRange ==
    (Constructed("TextSessionRef") /\ IdsValid(payload))
        => (result.ok <=> ContentInRange(payload))

\* C1 as amended: a content of fewer than 50 or more than 50,000 characters
\* always makes construction of a TextSessionRef fail; and when org_id, user_id
\* and session_id are valid, user_email is absent, null or a string and no
\* undeclared field is given, construction succeeds if and only if content has
\* 50 to 50,000 characters.
C1_ContentLengthBound ==
    Constructed("TextSessionRef") =>
        /\ ContentOutOfRange(payload) => ~result.ok
        /\ (IdsValid(payload) /\ EmailValid(payload)
               /\ Keys(payload) \subseteq SessionDeclared)
              => (result.ok <=> ContentInRange(payload))

C1_Witness ==
    /\ Constructed("TextSessionRef")
    /\ IdsValid(payload) /\ EmailValid(payload)
    /\ Keys(payload) \subseteq SessionDeclared
    /\ Has(payload, "content") /\ payload["content"] = Content(50001)
    /\ ~result.ok

UndeclaredIn(p, k, declared) == IsDict(p, k) /\ ~(Keys(p[k].d) \subseteq declared)
TriggerHasUndeclared(p) ==
    \/ ~(Keys(p) \subseteq TriggerDeclared)
    \/ UndeclaredIn(p, "text_session", SessionDeclared)
    \/ UndeclaredIn(p, "processing_options", OptionsDeclared)

\* C2: a TextTrigger payload with an undeclared field, at the top level or in
\* the embedded text_session or processing_options, is never constructed; nor
\* is a TextGenerateResponse payload with an undeclared field.
C2_UndeclaredFieldFails ==
    /\ (Constructed("TextTrigger") /\ TriggerHasUndeclared(payload))
          => (~result.ok /\ result.inst = NoInstance)
    /\ (Constructed("TextGenerateResponse")
            /\ ~(Keys(payload) \subseteq ResponseDeclared))
          => (~result.ok /\ result.inst = NoInstance)

\* the only fault of the payload is an undeclared field inside text_session
C2_Witness ==
    /\ Constructed("TextTrigger")
    /\ Keys(payload) \subseteq TriggerDeclared
    /\ result.errors =
          {[loc |-> <<"text_session", "extra_field">>, type |-> "extra_forbidden"]}

MinimalTrigger(p) ==
    /\ Keys(p) = {"text_session", "processing_options"}
    /\ p["text_session"].tag = "dict"
    /\ Keys(p["text_session"].d) = {"org_id", "user_id", "session_id", "content"}
    /\ IdsValid(p["text_session"].d)
    /\ ContentInRange(p["text_session"].d)
    /\ p["processing_options"].tag = "dict"
    /\ Keys(p["processing_options"].d) = {"input_type", "output_format"}
    /\ p["processing_options"].d["input_type"].s
          \in {"workflow_recording", "teaching_session"}
    /\ p["processing_options"].d["output_format"].s
          \in {"workflow_guide", "knowledge_base"}

\* C3: a TextTrigger built from only a valid text_session (org_id, user_id,
\* session_id, content) and processing_options with only input_type and
\* output_format is constructed, with version "1.0", source "mcp-generate",
\* visibility "private", output_language "auto", and project_id, name and
\* user_email unset.
C3_MinimalTriggerDefaults ==
    (Constructed("TextTrigger") /\ MinimalTrigger(payload)) =>
        /\ result.ok
        /\ result.inst.d["version"] = StrV("1.0")
        /\ result.inst.d["source"] = StrV("mcp-generate")
        /\ result.inst.d["visibility"] = Member("TextVisibility", "private")
        /\ result.inst.d["processing_options"].d["output_language"]
              = Member("TextOutputLanguage", "auto")
        /\ result.inst.d["project_id"] = None
        /\ result.inst.d["name"] = None
        /\ result.inst.d["text_session"].d["user_email"] = None

C3_Witness ==
    /\ Constructed("TextTrigger") /\ MinimalTrigger(payload)
    /\ payload["text_session"].d["content"] = Content(52)
    /\ result.ok

\* the language values a TextProcessingOptions is constructed with
LanguageTexts ==
    {"auto", "en", "es", "fr", "de", "pt", "zh", "ja", "ko", "ar", "he", "ru",
     "it", "nl", "pl", "tr", "vi", "th", "id", "hi",
     "sv", "uk", "el", "xx", "english", "AUTO"}
AcceptedOutputLanguages ==
    {l \in LanguageTexts :
        ValidateModel("TextProcessingOptions",
                      [input_type |-> StrV("workflow_recording"),
                       output_format |-> StrV("workflow_guide"),
                       output_language |-> StrV(l)]).ok}
NineteenCodes ==
    {"en", "es", "fr", "de", "pt", "zh", "ja", "ko", "ar", "he", "ru",
     "it", "nl", "pl", "tr", "vi", "th", "id", "hi"}
OptionsOtherwiseValid(p) ==
    /\ Keys(p) \subseteq OptionsDeclared
    /\ Has(p, "input_type")
    /\ p["input_type"].s \in {"workflow_recording", "teaching_session"}
    /\ Has(p, "output_format")
    /\ p["output_format"].s \in {"workflow_guide", "knowledge_base"}
    /\ Has(p, "model") => p["model"].tag = "str"

EnumeratedOk(p, k, values) ==
    Has(p, k) => (p[k].tag \in {"str", "enum"} /\ p[k].s \in values)
LiteralOk(p, k, values) == Has(p, k) => (p[k].tag = "str" /\ p[k].s \in values)
OptionsEnumeratedOk(p) ==
    /\ EnumeratedOk(p, "input_type", {"workflow_recording", "teaching_session"})
    /\ EnumeratedOk(p, "output_format", {"workflow_guide", "knowledge_base"})

\* C5: a constructed TextTrigger, TextProcessingOptions or
\* TextGenerateResponse was given, for each enumerated or fixed-literal field
\* it was given, one of the declared values: input_type, output_format,
\* visibility, status, version ("1.0" only) and source ("mcp-generate" only).
C5_EnumeratedFieldsClosed ==
    /\ (Constructed("TextProcessingOptions") /\ result.ok)
          => OptionsEnumeratedOk(payload)
    /\ (Constructed("TextTrigger") /\ result.ok) =>
          /\ EnumeratedOk(payload, "visibility", {"private", "org:view", "org:edit"})
          /\ LiteralOk(payload, "version", {"1.0"})
          /\ LiteralOk(payload, "source", {"mcp-generate"})
          /\ IsDict(payload, "processing_options")
                => OptionsEnumeratedOk(payload["processing_options"].d)
    /\ (Constructed("TextGenerateResponse") /\ result.ok)
          => LiteralOk(payload, "status", {"accepted", "error"})

\* an undeclared visibility is the only fault of a trigger payload
C5_Witness ==
    /\ Constructed("TextTrigger")
    /\ Has(payload, "visibility") /\ payload["visibility"] = StrV("public")
    /\ result.errors = {[loc |-> <<"visibility">>, type |-> "enum"]}

\* C6: a PersistentSession payload with a negative retry_count is rejected,
\* and one without retry_count is constructed with retry_count 0.
C6_NegativeRetryCountRejected ==
    Constructed("PersistentSession") =>
        /\ (Has(payload, "retry_count") /\ payload["retry_count"].tag = "int"
               /\ payload["retry_count"].n < 0)
              => ~result.ok
        /\ (~Has(payload, "retry_count") /\ result.ok)
              => result.inst.d["retry_count"] = IntV(0)

\* C7: in every constructed PersistentSession, session_id, user_id, org_id and
\* presence_ticket_jti are non-empty strings.
C7_SessionIdsNonEmpty ==
    (Constructed("PersistentSession") /\ result.ok) =>
        \A k \in {"session_id", "user_id", "org_id", "presence_ticket_jti"} :
            result.inst.d[k].tag = "str" /\ result.inst.d[k].n >= 1

\* C8: the dump of a constructed instance validates again, to an instance
\* equal to the first, whose dump is the same structure.
C8_RoundTrip ==
    /\ pc \in {"revalidated", "done"}
          => (result2.ok /\ result2.inst = result.inst)
    /\ pc = "done" => dumped2 = dumped

\* a round trip of a payload that the dump does not give back: the dump holds
\* the defaults and the coerced values
C8_Witness ==
    /\ pc = "done"
    /\ cls = "PersistentSession"
    /\ Has(payload, "retry_count") /\ payload["retry_count"] = StrV("1")
    /\ dumped["retry_count"] = IntV(1)
    /\ dumped # payload

SessionRecordDeclaredValid(p) ==
    /\ \A k \in {"session_id", "user_id", "org_id", "device_fingerprint",
                 "created_at", "started_at", "updated_at", "status",
                 "presence_ticket_jti", "ttl_expires_at"} :
           Has(p, k) /\ p[k].tag = "str"
    /\ Has(p, "stopped_at") => p["stopped_at"].tag \in {"none", "str"}
    /\ Has(p, "processing_time_seconds")
          => p["processing_time_seconds"].tag \in {"none", "float", "int"}
    /\ Has(p, "retry_count") => p["retry_count"].tag = "int"
    /\ Has(p, "version") => p["version"].tag = "int"
    /\ Keys(p) \subseteq
          {"session_id", "user_id", "org_id", "device_fingerprint", "created_at",
           "started_at", "updated_at", "status", "presence_ticket_jti",
           "ttl_expires_at", "stopped_at", "processing_time_seconds",
           "retry_count", "version", "extra_field"}

\* C9: a PersistentSession payload whose declared fields are valid is
\* constructed also when it carries an undeclared field, whereas an undeclared
\* field makes construction of TextSessionRef, TextProcessingOptions,
\* TextTrigger and TextGenerateResponse fail.
C9_OpenRecordClosedTrigger ==
    /\ (Constructed("PersistentSession") /\ SessionRecordDeclaredValid(payload)
            /\ Has(payload, "extra_field"))
          => result.ok
    /\ (Constructed("TextSessionRef") /\ ~(Keys(payload) \subseteq SessionDeclared))
          => ~result.ok
    /\ (Constructed("TextProcessingOptions")
            /\ ~(Keys(payload) \subseteq OptionsDeclared))
          => ~result.ok
    /\ (Constructed("TextTrigger") /\ ~(Keys(payload) \subseteq TriggerDeclared))
          => ~result.ok
    /\ (Constructed("TextGenerateResponse")
            /\ ~(Keys(payload) \subseteq ResponseDeclared))
          => ~result.ok

\* a session record constructed from a payload with an undeclared field,
\* which the instance does not hold
C9_Witness ==
    /\ Constructed("PersistentSession")
    /\ Has(payload, "extra_field")
    /\ result.ok
    /\ "extra_field" \notin DOMAIN result.inst.d

\* the fields of a text_session dict that break a rule
SessionViolations(d) ==
    {k \in {"org_id", "user_id", "session_id"} :
        ~Has(d, k) \/ d[k].tag # "str" \/ d[k].n < 1}
    \cup {k \in {"content"} : ~ContentInRange(d)}
    \cup {k \in {"user_email"} : ~EmailValid(d)}
    \cup (Keys(d) \ SessionDeclared)
\* the fields of a processing_options dict that break a rule
OptionsViolations(d) ==
    {k \in {"input_type"} :
        ~Has(d, k) \/ ~EnumeratedOk(d, k, {"workflow_recording", "teaching_session"})}
    \cup {k \in {"output_format"} :
        ~Has(d, k) \/ ~EnumeratedOk(d, k, {"workflow_guide", "knowledge_base"})}
    \cup {k \in {"model"} : Has(d, k) /\ d[k].tag # "str"}
    \cup {k \in {"output_language"} :
        ~EnumeratedOk(d, k, NineteenCodes \cup {"auto"})}
    \cup (Keys(d) \ OptionsDeclared)
\* the paths of the fields of a trigger payload that break a rule
EmbeddedViolations(p, k, c, nested) ==
    IF ~Has(p, k) THEN {<<k>>}
    ELSE IF p[k].tag = "dict" THEN {<<k, j>> : j \in nested}
    ELSE IF p[k].tag = "instance" /\ p[k].cls = c THEN {}
    ELSE {<<k>>}
TriggerViolations(p) ==
    {<<k>> : k \in Keys(p) \ TriggerDeclared}
    \cup {<<k>> : k \in {j \in {"version"} : ~LiteralOk(p, j, {"1.0"})}}
    \cup {<<k>> : k \in {j \in {"source"} : ~LiteralOk(p, j, {"mcp-generate"})}}
    \cup {<<k>> : k \in {j \in {"visibility"} :
                    ~EnumeratedOk(p, j, {"private", "org:view", "org:edit"})}}
    \cup {<<k>> : k \in {j \in {"project_id", "name"} :
                    Has(p, j) /\ p[j].tag \notin {"none", "str"}}}
    \cup EmbeddedViolations(p, "text_session", "TextSessionRef",
            IF IsDict(p, "text_session")
            THEN SessionViolations(p["text_session"].d) ELSE {})
    \cup EmbeddedViolations(p, "processing_options", "TextProcessingOptions",
            IF IsDict(p, "processing_options")
            THEN OptionsViolations(p["processing_options"].d) ELSE {})

\* C10: a TextTrigger payload that breaks a rule yields no instance, and the
\* error names every field of the payload that breaks a rule, those of
\* text_session and processing_options included.
C10_EveryViolationReported ==
    (Constructed("TextTrigger") /\ TriggerViolations(payload) # {}) =>
        /\ ~result.ok
        /\ result.inst = NoInstance
        /\ TriggerViolations(payload) \subseteq {e.loc : e \in result.errors}

\* a payload with faults at the top level and in both embedded objects
C10_Witness ==
    /\ Constructed("TextTrigger")
    /\ ~result.ok
    /\ {<<"version">>, <<"extra_field">>, <<"text_session", "org_id">>,
        <<"text_session", "content">>, <<"processing_options", "input_type">>,
        <<"processing_options", "extra_field">>}
          \subseteq {e.loc : e \in result.errors}

====
